---------------------------- MODULE Spec2Model ----------------------------
(***************************************************************************)
(* A model of fgsm_tutorial.ipynb: the FGSM attack on an MNIST classifier. *)
(*                                                                         *)
(* Tensors hold binary floating-point numbers.  A number is modelled by    *)
(* the integer  value * Unit,  and every tensor operation rounds its exact *)
(* result to the nearest number with Prec significant bits (ties to even), *)
(* as IEEE-754 arithmetic does.  torch's default dtype carries 24 bits;    *)
(* the model carries Prec bits, so that TLC can enumerate the numbers.     *)
(***************************************************************************)
EXTENDS Integers, Sequences, FiniteSets, TLC

\* ------------------------------------------------------------- bounds

\* Significant bits of the modelled floating-point format.
Prec == 8

\* Pixels per image (the tensors of the notebook are 1x1x28x28).
NPix == 2

\* Entries of the epsilons list that the run loop of the model goes through.
NumEps == 3

\* Samples of the test set in a run of the whole notebook.
RunSamples == 2

\* Samples of the test set in a single call of test.
PassSamples == 7

\* ------------------------------------------------- floating-point numbers

\* The number 1.0; numbers below 2^-5 are spaced 1/Unit apart (subnormals).
Unit == 2 ^ (Prec + 5)

Abs(x) == IF x < 0 THEN -x ELSE x

\* The spacing of the floating-point numbers around n/d: the least power
\* of two s with |n/d| < s * 2^Prec.
RECURSIVE Spacing(_, _, _)
Spacing(n, d, s) ==
    IF Abs(n) < d * s * (2 ^ Prec) THEN s ELSE Spacing(n, d, 2 * s)

\* n/d (d > 0) rounded to the nearest floating-point number, ties to even.
RoundQ(n, d) ==
    LET s == Spacing(n, d, 1)
        D == d * s
        q == n \div D
        r == n - q * D
        m == IF 2 * r < D THEN q
             ELSE IF 2 * r > D THEN q + 1
             ELSE IF q % 2 = 0 THEN q ELSE q + 1
    IN  m * s

FAdd(a, b) == RoundQ(a + b, 1)
FSub(a, b) == RoundQ(a - b, 1)
FMul(a, b) == RoundQ(a * b, Unit)
FDiv(a, b) == RoundQ(a * Unit, b)

\* A decimal literal n/d of the source, as the floating-point number it
\* becomes when it is put into a tensor.
FromRatio(n, d) == RoundQ(n * Unit, d)

\* x.sign() of one element.
Sign(x) == IF x > 0 THEN Unit ELSE IF x < 0 THEN -Unit ELSE 0

\* torch.clamp(x, lo, hi) of one element.
Clamp(x, lo, hi) == IF x < lo THEN lo ELSE IF x > hi THEN hi ELSE x

Pixels == 1..NPix

\* ------------------------------------------------------- program constants

\* mean=[0.1307], std=[0.3081] of denorm, and of transforms.Normalize.
Mean == FromRatio(1307, 10000)
Std == FromRatio(3081, 10000)

\* The cap on the examples test saves.
MaxExamples == 5

\* ------------------------------------------------------- fgsm_attack, denorm

\* epsilon * tensor: a Python scalar (modelled in hundredths) times a tensor
\* element; the scalar takes the tensor's floating-point type.
ScalarMul(epsilon, x) == FMul(FromRatio(epsilon, 100), x)

\* def fgsm_attack(image, epsilon, data_grad)
fgsm_attack_nosign(image, epsilon, data_grad) ==
    [p \in Pixels |->
        Clamp(FAdd(image[p], ScalarMul(epsilon, data_grad[p])), 0, Unit)]

fgsm_attack_noclamp(image, epsilon, data_grad) ==
    [p \in Pixels |-> FAdd(image[p], ScalarMul(epsilon, Sign(data_grad[p])))]

fgsm_attack_twice(image, epsilon, data_grad) ==
    [p \in Pixels |->
        Clamp(FAdd(image[p], ScalarMul(2 * epsilon, Sign(data_grad[p]))),
              0, Unit)]

fgsm_attack(image, epsilon, data_grad) ==
    LET sign_data_grad == [p \in Pixels |-> Sign(data_grad[p])]
        perturbed_image ==
            [p \in Pixels |->
                FAdd(image[p], ScalarMul(epsilon, sign_data_grad[p]))]
    IN  [p \in Pixels |-> Clamp(perturbed_image[p], 0, Unit)]

\* def denorm(batch, mean=[0.1307], std=[0.3081])
denorm_swapped(batch) == [p \in Pixels |-> FAdd(FMul(batch[p], Mean), Std)]

denorm(batch) == [p \in Pixels |-> FAdd(FMul(batch[p], Std), Mean)]

\* transforms.Normalize((0.1307,), (0.3081,))(tensor): (tensor - mean) / std
Normalize(tensor) == [p \in Pixels |-> FDiv(FSub(tensor[p], Mean), Std)]

\* ------------------------------------------------------------- the state

VARIABLES
    pc,            \* where the notebook is: "load", "failed", "run", "loop",
                   \* "returned", "done"; "fn" in the function harness
    fileExists,    \* whether data/lenet_mnist_model.pth is on disk
    weights,       \* "undefined", "random" (Net()), "pretrained"
    training,      \* model.training: TRUE until model.eval()
    model,         \* the outputs of model(x) seen so far: image -> label
    grads,         \* the data.grad seen so far: image -> gradient tensor
    test_loader,   \* the sequence of samples [data, target]
    epsIdx,        \* the position of the run loop in epsilons
    accuracies,    \* the run loop's list of final_acc
    examples,      \* the run loop's list of adv_examples
    epsilon,       \* test's parameter
    remaining,     \* the samples the loader has not yielded in this pass
    visits,        \* how often this pass has yielded each sample
    correct,       \* test's accuracy counter
    adv_examples,  \* test's list of (init_pred, final_pred, adv_ex)
    ret,           \* what the last call of test returned
    image,         \* the function harness: the input tensor
    eps,           \* the function harness: the scalar epsilon
    data_grad,     \* the function harness: the gradient tensor
    res,           \* the function harness: the tensor computed so far
    hist           \* the function harness: the functions applied to image

vars == <<pc, fileExists, weights, training, model, grads, test_loader,
          epsIdx, accuracies, examples, epsilon, remaining, visits, correct,
          adv_examples, ret, image, eps, data_grad, res, hist>>

progVars == <<fileExists, weights, training, model, grads, test_loader,
              epsIdx, accuracies, examples, epsilon, remaining, visits,
              correct, adv_examples, ret>>

fnVars == <<image, eps, data_grad, res, hist>>

\* ------------------------------------------------- the function harness

\* Tensor elements, inside and outside [0,1].
PixelVals == {FromRatio(n, 10) : n \in {-5, 0, 3, 7, 10, 15}}

\* Scalars, in hundredths: negative, zero, of the epsilons list, above 1.
EpsScalars == {-20, 0, 5, 30, 150}

\* Gradient elements: negative, zero, positive.
GradVals == {FromRatio(-3, 2), 0, FromRatio(1, 4)}

InitFn ==
    /\ pc = "fn"
    /\ image \in [Pixels -> PixelVals]
    /\ eps \in EpsScalars
    /\ data_grad \in [Pixels -> GradVals]
    /\ res = image
    /\ hist = <<>>
    /\ fileExists = FALSE
    /\ weights = "undefined"
    /\ training = TRUE
    /\ model = <<>>
    /\ grads = <<>>
    /\ test_loader = <<>>
    /\ epsIdx = 1
    /\ accuracies = <<>>
    /\ examples = <<>>
    /\ epsilon = 0
    /\ remaining = {}
    /\ visits = <<>>
    /\ correct = 0
    /\ adv_examples = <<>>
    /\ ret = <<>>

CallFgsm ==
    /\ pc = "fn"
    /\ hist = <<>>
    /\ res' = fgsm_attack(image, eps, data_grad)
    /\ hist' = <<"fgsm_attack">>
    /\ UNCHANGED <<pc, image, eps, data_grad>>
    /\ UNCHANGED progVars

CallDenorm ==
    /\ pc = "fn"
    /\ hist \in {<<>>, <<"Normalize">>}
    /\ res' = denorm(res)
    /\ hist' = Append(hist, "denorm")
    /\ UNCHANGED <<pc, image, eps, data_grad>>
    /\ UNCHANGED progVars

CallNormalize ==
    /\ pc = "fn"
    /\ hist \in {<<>>, <<"denorm">>}
    /\ res' = Normalize(res)
    /\ hist' = Append(hist, "Normalize")
    /\ UNCHANGED <<pc, image, eps, data_grad>>
    /\ UNCHANGED progVars

NextFn == CallFgsm \/ CallDenorm \/ CallNormalize

SpecFn == InitFn /\ [][NextFn]_vars

\* ------------------------------------------------------------ the notebook

\* epsilons = [0, .05, .1, .15, .2, .25, .3], in hundredths.
epsilons == <<0, 5, 10, 15, 20, 25, 30>>

\* The classes the model tells apart (two of the ten digits).
Labels == {0, 1}

\* The bytes of test image i (the MNIST files), and its label.
\* (Three different images; images 2 and 3 are equal, and so are the
\* images from the fourth on.)
RawByte(i, p) ==
    IF i = 1 THEN (54 + 73 * (p - 1)) % 256
    ELSE IF i <= 3 THEN (200 + 91 * (p - 1)) % 256
    ELSE (142 + 57 * (p - 1)) % 256

Target(i) == IF i = 1 THEN 1 ELSE IF i <= 3 THEN 0 ELSE 1

\* transforms.ToTensor(): a byte becomes byte / 255.
ToTensor(b) == FromRatio(b, 255)

\* One sample as the loader yields it: ToTensor, then Normalize.
Sample(i) ==
    [data |-> Normalize([p \in Pixels |-> ToTensor(RawByte(i, p))]),
     target |-> Target(i)]

\* test_loader over the first n images, batch_size=1.
DataLoader(n) == [i \in 1..n |-> Sample(i)]

\* The gradients loss.backward() may leave in data.grad: elements of either
\* sign, and elements that are 0.
GradChoices ==
    {[p \in Pixels |-> IF p % 2 = 1 THEN FromRatio(-3, 2) ELSE FromRatio(3, 2)],
     [p \in Pixels |-> IF p = 1 THEN 0 ELSE FromRatio(1, 4)]}

\* model(x) and data.grad are functions of the weights, which the model
\* does not know: their values are chosen when first needed and kept.
Known(f, x, v) == x \in DOMAIN f => f[x] = v

Learn(f, x, v) == [y \in DOMAIN f \cup {x} |-> IF y = x THEN v ELSE f[y]]

\* test, line 416: a sample whose initial prediction is wrong is skipped.
ShouldSkip_never(init_pred, target) == FALSE

ShouldSkip(init_pred, target) == init_pred # target

\* test, lines 445-446: the accuracy counter.
NextCorrect_always(n, final_pred, target) == n + 1

NextCorrect(n, final_pred, target) ==
    IF final_pred = target THEN n + 1 ELSE n

\* test, lines 445-455: the examples saved.
NextExamples_anyeps(saved, e, init_pred, final_pred, target, adv_ex) ==
    IF Len(saved) < MaxExamples
    THEN Append(saved, <<init_pred, final_pred, adv_ex>>)
    ELSE saved

NextExamples(saved, e, init_pred, final_pred, target, adv_ex) ==
    IF final_pred = target
    THEN IF e = 0 /\ Len(saved) < MaxExamples
         THEN Append(saved, <<init_pred, final_pred, adv_ex>>)
         ELSE saved
    ELSE IF Len(saved) < MaxExamples
         THEN Append(saved, <<init_pred, final_pred, adv_ex>>)
         ELSE saved

\* test, line 403: the for loop ends when the loader is exhausted.
LoopDone_break == remaining = {} \/ Len(adv_examples) >= MaxExamples

LoopDone == remaining = {}

\* test, line 458: correct/float(len(test_loader)), kept as the fraction.
final_acc_of(n, loader) == <<n, Len(loader)>>

\* The perturbed image of a sample under gradient g, as test computes it
\* (lines 432 and 435), and the image the model then classifies (line 438).
Perturbed(data, e, g) == fgsm_attack(denorm(data), e, g)

Renormalized(data, e, g) == Normalize(Perturbed(data, e, g))

Init ==
    /\ pc = "load"
    /\ fileExists \in BOOLEAN
    /\ weights = "undefined"
    /\ training = TRUE
    /\ model = <<>>
    /\ grads = <<>>
    /\ test_loader = <<>>
    /\ epsIdx = 1
    /\ accuracies = <<>>
    /\ examples = <<>>
    /\ epsilon = 0
    /\ remaining = {}
    /\ visits = <<>>
    /\ correct = 0
    /\ adv_examples = <<>>
    /\ ret = <<>>
    /\ image = [p \in Pixels |-> 0]
    /\ eps = 0
    /\ data_grad = [p \in Pixels |-> 0]
    /\ res = [p \in Pixels |-> 0]
    /\ hist = <<>>

\* The cell that defines Net and test_loader, builds Net() and loads the
\* pretrained weights: torch.load raises FileNotFoundError when the file is
\* missing, nothing catches it, and the run of the notebook stops there.
LoadCell_caught ==
    /\ pc = "load"
    /\ test_loader' = DataLoader(RunSamples)
    /\ weights' = IF fileExists THEN "pretrained" ELSE "random"
    /\ training' = FALSE
    /\ pc' = "run"
    /\ UNCHANGED <<fileExists, model, grads, epsIdx, accuracies, examples,
                   epsilon, remaining, visits, correct, adv_examples, ret>>
    /\ UNCHANGED fnVars

LoadCell ==
    /\ pc = "load"
    /\ test_loader' = DataLoader(RunSamples)
    /\ IF fileExists
       THEN weights' = "pretrained" /\ training' = FALSE /\ pc' = "run"
       ELSE weights' = "random" /\ training' = TRUE /\ pc' = "failed"
    /\ UNCHANGED <<fileExists, model, grads, epsIdx, accuracies, examples,
                   epsilon, remaining, visits, correct, adv_examples, ret>>
    /\ UNCHANGED fnVars

\* The run loop calls test(model, device, test_loader, eps).
CallTest ==
    /\ pc = "run"
    /\ epsIdx <= NumEps
    /\ epsilon' = epsilons[epsIdx]
    /\ correct' = 0
    /\ adv_examples' = <<>>
    /\ remaining' = DOMAIN test_loader
    /\ visits' = [i \in DOMAIN test_loader |-> 0]
    /\ pc' = "loop"
    /\ UNCHANGED <<fileExists, weights, training, model, grads, test_loader,
                   epsIdx, accuracies, examples, ret>>
    /\ UNCHANGED fnVars

\* One iteration of test's loop that ends at "continue".
TestSkip(i, init_pred) ==
    LET data == test_loader[i].data
        target == test_loader[i].target
    IN  /\ pc = "loop"
        /\ ~LoopDone
        /\ i \in remaining
        /\ Known(model, data, init_pred)
        /\ ShouldSkip(init_pred, target)
        /\ model' = Learn(model, data, init_pred)
        /\ remaining' = remaining \ {i}
        /\ visits' = [visits EXCEPT ![i] = @ + 1]
        /\ UNCHANGED <<pc, fileExists, weights, training, grads, test_loader,
                       epsIdx, accuracies, examples, epsilon, correct,
                       adv_examples, ret>>
        /\ UNCHANGED fnVars

\* One iteration of test's loop that attacks the sample.  (Each tensor is
\* computed once and bound, as the code binds it to a variable.)
TestAttack(i, init_pred, g) ==
    LET data == test_loader[i].data
        target == test_loader[i].target
        seen == Learn(model, data, init_pred)
    IN  /\ pc = "loop"
        /\ ~LoopDone
        /\ i \in remaining
        /\ Known(model, data, init_pred)
        /\ ~ShouldSkip(init_pred, target)
        /\ Known(grads, data, g)
        /\ \E perturbed_data \in {Perturbed(data, epsilon, g)} :
           \E perturbed_data_normalized \in {Normalize(perturbed_data)} :
           \E final_pred \in Labels :
              /\ Known(seen, perturbed_data_normalized, final_pred)
              /\ model' = Learn(seen, perturbed_data_normalized, final_pred)
              /\ correct' = NextCorrect(correct, final_pred, target)
              /\ adv_examples' =
                    NextExamples(adv_examples, epsilon, init_pred,
                                 final_pred, target, perturbed_data)
        /\ grads' = Learn(grads, data, g)
        /\ remaining' = remaining \ {i}
        /\ visits' = [visits EXCEPT ![i] = @ + 1]
        /\ UNCHANGED <<pc, fileExists, weights, training, test_loader,
                       epsIdx, accuracies, examples, epsilon, ret>>
        /\ UNCHANGED fnVars

\* The end of test: final_acc is computed and returned with adv_examples.
TestReturn ==
    /\ pc = "loop"
    /\ LoopDone
    /\ ret' = [final_acc |-> final_acc_of(correct, test_loader),
               adv_examples |-> adv_examples]
    /\ pc' = "returned"
    /\ UNCHANGED <<fileExists, weights, training, model, grads, test_loader,
                   epsIdx, accuracies, examples, epsilon, remaining, visits,
                   correct, adv_examples>>
    /\ UNCHANGED fnVars

\* The run loop appends what test returned and goes to the next epsilon.
RunAppend ==
    /\ pc = "returned"
    /\ accuracies' = Append(accuracies, ret.final_acc)
    /\ examples' = Append(examples, ret.adv_examples)
    /\ epsIdx' = epsIdx + 1
    /\ pc' = "run"
    /\ UNCHANGED <<fileExists, weights, training, model, grads, test_loader,
                   epsilon, remaining, visits, correct, adv_examples, ret>>
    /\ UNCHANGED fnVars

\* The run loop has gone through epsilons.
RunEnd ==
    /\ pc = "run"
    /\ epsIdx > NumEps
    /\ pc' = "done"
    /\ UNCHANGED progVars
    /\ UNCHANGED fnVars

\* The loader yields any sample it has not yielded yet (shuffle=True); the
\* model's prediction on it is wrong ...
SkipStep == \E i \in remaining, init_pred \in Labels : TestSkip(i, init_pred)

\* ... or right.
AttackStep ==
    \E i \in remaining, init_pred \in Labels, g \in GradChoices :
        TestAttack(i, init_pred, g)

Next ==
    \/ LoadCell
    \/ CallTest
    \/ SkipStep
    \/ AttackStep
    \/ TestReturn
    \/ RunAppend
    \/ RunEnd

Spec == Init /\ [][Next]_vars

\* A single call test(model, device, test_loader, epsilon) on a loaded model.
InitPass ==
    /\ pc = "loop"
    /\ fileExists = TRUE
    /\ weights = "pretrained"
    /\ training = FALSE
    /\ model = <<>>
    /\ grads = <<>>
    /\ test_loader = DataLoader(PassSamples)
    /\ epsIdx \in {1, NumEps}
    /\ accuracies = <<>>
    /\ examples = <<>>
    /\ epsilon = epsilons[epsIdx]
    /\ remaining = DOMAIN test_loader
    /\ visits = [i \in DOMAIN test_loader |-> 0]
    /\ correct = 0
    /\ adv_examples = <<>>
    /\ ret = <<>>
    /\ image = [p \in Pixels |-> 0]
    /\ eps = 0
    /\ data_grad = [p \in Pixels |-> 0]
    /\ res = [p \in Pixels |-> 0]
    /\ hist = <<>>

NextPass == SkipStep \/ AttackStep \/ TestReturn

SpecPass == InitPass /\ [][NextPass]_vars

\* ----------------------------------------------- claims on the functions

InUnitRange(t) == \A p \in Pixels : 0 <= t[p] /\ t[p] <= Unit

\* C1: fgsm_attack returns, at each pixel p, the value
\* clamp(image[p] + epsilon * sign(data_grad[p]), 0, 1), the sum taken in the
\* tensor's arithmetic: the pixel moves up by epsilon where the gradient is
\* positive, down by epsilon where it is negative, and not at all where the
\* gradient is exactly 0, and is then clipped.
C1_FgsmPixelwise ==
    hist = <<"fgsm_attack">> =>
        \A p \in Pixels :
            LET e == FromRatio(eps, 100)
                moved == IF data_grad[p] > 0 THEN RoundQ(image[p] + e, 1)
                         ELSE IF data_grad[p] < 0 THEN RoundQ(image[p] - e, 1)
                         ELSE image[p]
            IN  res[p] = IF moved < 0 THEN 0
                         ELSE IF moved > Unit THEN Unit ELSE moved

C1_Witness ==
    /\ hist = <<"fgsm_attack">>
    /\ eps > 0
    /\ InUnitRange(image)
    /\ \E p, q \in Pixels :
          /\ data_grad[p] = 0 /\ res[p] = image[p]
          /\ data_grad[q] < 0 /\ res[q] < image[q]

\* C2: every pixel of the image fgsm_attack returns lies in [0,1], also for
\* an image with pixels outside [0,1], a negative epsilon or one above 1.
C2_ResultInRange == hist = <<"fgsm_attack">> => InUnitRange(res)

C2_Witness ==
    /\ hist = <<"fgsm_attack">>
    /\ eps > 100
    /\ \E p, q \in Pixels :
          /\ image[p] > Unit /\ data_grad[p] > 0 /\ res[p] = Unit
          /\ image[q] < 0 /\ data_grad[q] < 0 /\ res[q] = 0

\* C8 as stated: denorm(x) = x * 0.3081 + 0.1307, and denorm and Normalize
\* undo each other exactly, in both directions.
C8_ExactInverse ==
    /\ hist = <<"denorm", "Normalize">> => res = image
    /\ hist = <<"Normalize", "denorm">> => res = image

\* The rounding error allowed to a round trip through x: 2^-(Prec-2) (|x|+1).
Tolerance(x) == (Abs(x) + Unit) \div (2 ^ (Prec - 2))

\* C8, amended: denorm(x) is x * 0.3081 + 0.1307 up to rounding, and denorm
\* and Normalize undo each other, in both directions, up to the rounding
\* error of the four floating-point operations: the result differs from x
\* by at most 2^-(Prec-2) (|x| + 1).
C8_InverseUpToRounding ==
    /\ hist = <<"denorm">> =>
          \A p \in Pixels :
              Abs(res[p] * 10000 - (image[p] * 3081 + 1307 * Unit))
                  <= 10000 * Tolerance(image[p])
    /\ hist \in {<<"denorm", "Normalize">>, <<"Normalize", "denorm">>} =>
          \A p \in Pixels : Abs(res[p] - image[p]) <= Tolerance(image[p])

C8_Witness ==
    /\ hist = <<"denorm", "Normalize">>
    /\ \E p \in Pixels : res[p] # image[p]

\* C10 as stated: for an image in [0,1] and epsilon >= 0, each pixel of the
\* result differs from the input pixel by at most epsilon, and by exactly 0
\* when epsilon = 0.
C10_WithinEpsilon ==
    (hist = <<"fgsm_attack">> /\ InUnitRange(image) /\ eps >= 0) =>
        /\ \A p \in Pixels : Abs(res[p] - image[p]) * 100 <= eps * Unit
        /\ eps = 0 => res = image

\* C10, amended: for an image in [0,1] and epsilon >= 0, each pixel of the
\* result differs from the input pixel by at most epsilon plus the rounding
\* of the scalar and of the sum, 2^-(Prec-1) (1 + epsilon), and by exactly 0
\* when epsilon = 0.
C10_WithinEpsilonRounded ==
    (hist = <<"fgsm_attack">> /\ InUnitRange(image) /\ eps >= 0) =>
        /\ \A p \in Pixels :
              Abs(res[p] - image[p]) * 100
                  <= eps * Unit + ((100 + eps) * Unit) \div (2 ^ (Prec - 1))
        /\ eps = 0 => res = image

C10_Witness ==
    /\ hist = <<"fgsm_attack">>
    /\ InUnitRange(image)
    /\ eps > 0
    /\ \E p \in Pixels : Abs(res[p] - image[p]) * 100 > eps * Unit

\* ------------------------------------------------ claims on the notebook

Samples == DOMAIN test_loader

\* The samples the model classifies correctly before any attack.
InitiallyCorrect ==
    {i \in Samples :
        /\ test_loader[i].data \in DOMAIN model
        /\ model[test_loader[i].data] = test_loader[i].target}

\* The samples the model classifies correctly before and after the attack
\* with scalar e.
StillCorrect(e) ==
    {i \in InitiallyCorrect :
        LET data == test_loader[i].data
        IN  /\ data \in DOMAIN grads
            /\ Renormalized(data, e, grads[data]) \in DOMAIN model
            /\ model[Renormalized(data, e, grads[data])]
                   = test_loader[i].target}

\* C3 as stated: test(model, device, test_loader, 0) returns the accuracy of
\* the model with no attack: when every denormalised test image lies in
\* [0,1], final_acc is (samples whose initial prediction equals the
\* target) / len(test_loader).
C3_ZeroEpsilonIsCleanAccuracy ==
    (/\ pc = "returned"
     /\ epsilon = 0
     /\ \A i \in Samples : InUnitRange(denorm(test_loader[i].data)))
        => ret.final_acc = <<Cardinality(InitiallyCorrect), Len(test_loader)>>

\* C4 as stated: the accuracies list built by the run loop over increasing
\* epsilons is non-increasing.
C4_AccuraciesNonIncreasing ==
    \A j, k \in DOMAIN accuracies :
        j < k => accuracies[k][1] <= accuracies[j][1]

\* C4, amended: the accuracies need not decrease as epsilon increases; every
\* accuracy of the list is at most the accuracy of the model with no attack,
\* (samples whose initial prediction equals the target) / len(test_loader).
C4_AccuraciesAtMostClean ==
    \A k \in DOMAIN accuracies :
        /\ accuracies[k][1] <= Cardinality(InitiallyCorrect)
        /\ accuracies[k][2] = Len(test_loader)

C4_Witness ==
    /\ Len(accuracies) >= 3
    /\ accuracies[3][1] > accuracies[2][1]

\* C5: for every epsilon, the final_acc test returns is
\* correct / len(test_loader), where correct counts exactly the samples
\* predicted correctly both before and after the perturbation; skipped and
\* fooled samples stay in the denominator, so 0 <= final_acc <= 1.
C5_FinalAccCountsStillCorrect ==
    pc = "returned" =>
        /\ ret.final_acc
              = <<Cardinality(StillCorrect(epsilon)), Len(test_loader)>>
        /\ 0 <= ret.final_acc[1]
        /\ ret.final_acc[1] <= ret.final_acc[2]

C5_Witness ==
    /\ pc = "returned"
    /\ epsilon > 0
    /\ ret.final_acc[1] > 0
    /\ \E i \in Samples : i \notin InitiallyCorrect
    /\ \E i \in InitiallyCorrect : i \notin StillCorrect(epsilon)

\* The loop of test can take a step: the loader is exhausted (the call
\* returns), or it yields a sample on which the model has a prediction and,
\* where that prediction is right, a gradient.
LoopCanStep ==
    \/ LoopDone
    \/ \E i \in remaining, init_pred \in Labels :
          /\ Known(model, test_loader[i].data, init_pred)
          /\ \/ ShouldSkip(init_pred, test_loader[i].target)
             \/ \E g \in GradChoices : Known(grads, test_loader[i].data, g)

\* C6: each call of test visits every sample of the finite test set exactly
\* once, then ends and returns the pair (final_acc, adv_examples); reaching
\* the cap of 5 saved examples or skipping a sample does not end the pass
\* early.  (The loop can always take a step, every step of the loop takes
\* one sample that was not visited before out of the finite set remaining,
\* and the call returns only when none remains.)
C6_FullPassThenReturn ==
    /\ [](pc = "loop" => LoopCanStep)
    /\ [][pc = "loop" =>
            \/ /\ pc' = "loop"
               /\ \E i \in remaining :
                     /\ visits[i] = 0
                     /\ visits' = [visits EXCEPT ![i] = 1]
                     /\ remaining' = remaining \ {i}
            \/ /\ pc' = "returned"
               /\ remaining = {}]_vars
    /\ [](pc = "returned" =>
            /\ \A i \in Samples : visits[i] = 1
            /\ ret = [final_acc |-> <<correct, Len(test_loader)>>,
                      adv_examples |-> adv_examples])

C6_Witness ==
    /\ pc = "returned"
    /\ \A i \in Samples : visits[i] = 1
    /\ Len(ret.adv_examples) = MaxExamples
    /\ \E i \in Samples : i \notin InitiallyCorrect
    /\ Cardinality(InitiallyCorrect \ StillCorrect(epsilon)) > MaxExamples

\* The sample a saved example (init_pred, final_pred, adv_ex) of a pass with
\* scalar e comes from.
SavedFrom(t, e) ==
    {i \in InitiallyCorrect :
        LET data == test_loader[i].data
        IN  /\ data \in DOMAIN grads
            /\ t[1] = test_loader[i].target
            /\ t[3] = Perturbed(data, e, grads[data])}

\* C7 as stated: for every epsilon, every example test returns in
\* adv_examples had a correct initial prediction and a final prediction
\* that differs from the target.
C7_SavedAreAdversarial ==
    \A j \in DOMAIN examples : \A k \in DOMAIN examples[j] :
        LET t == examples[j][k]
        IN  \E i \in SavedFrom(t, epsilons[j]) : t[2] # test_loader[i].target

\* C7, amended: every example test returns in adv_examples had a correct
\* initial prediction, and for every epsilon other than 0 its final
\* prediction differs from the target; for epsilon = 0 test also saves
\* examples whose final prediction is still the target.
C7_SavedAreAdversarialUnlessZero ==
    \A j \in DOMAIN examples : \A k \in DOMAIN examples[j] :
        LET t == examples[j][k]
        IN  \E i \in SavedFrom(t, epsilons[j]) :
                epsilons[j] # 0 => t[2] # test_loader[i].target

C7_Witness ==
    /\ Len(examples) >= 2
    /\ \E k \in DOMAIN examples[1] : examples[1][k][2] = examples[1][k][1]
    /\ \E k \in DOMAIN examples[2] : examples[2][k][2] # examples[2][k][1]

\* C9: when the pretrained model file does not exist, loading fails before
\* any weight is loaded: the error is not caught, model.eval() is not
\* reached, and no accuracy is ever computed with the randomly initialised
\* weights.
C9_MissingFileStopsTheRun ==
    ~fileExists =>
        /\ pc \in {"load", "failed"}
        /\ weights # "pretrained"
        /\ training = TRUE
        /\ model = <<>>
        /\ ret = <<>>
        /\ accuracies = <<>>

C9_Witness ==
    /\ ~fileExists
    /\ pc = "failed"
    /\ weights = "random"
    /\ test_loader # <<>>

=============================================================================
